---- MODULE Spec2Model ----
(***************************************************************************)
(* Model of kubernetes/resource_kubernetes_persistent_volume_claim.go:     *)
(* the Create / Read / Update / Delete / Exists / Import operations of the *)
(* persistent volume claim resource, one resource record (d) against a     *)
(* cluster that changes on its own between remote calls.                   *)
(***************************************************************************)
EXTENDS Integers, Sequences, FiniteSets, TLC

(* ---------------------------- bounds ----------------------------------- *)
\* the create timeout, counted in poll intervals of the wait
MaxDeadline == 3
\* largest number of warning events the cluster holds for one object
MaxEvents == 4

(* ------------------------- program constants --------------------------- *)
\* limit argument of getLastWarningsForObject
WarningLimit == 3
\* status code tested by Exists
NotFoundCode == 404

(* ------------------------------ strings -------------------------------- *)
\* strings that are parsed are sequences of one-character strings
EmptyStr == << >>
Slash == "/"
Namespaces == { EmptyStr, <<"n">> }
Names == { <<"a">> }
Keys == Namespaces \X Names
PVName == <<"p", "v">>
VolumeNames == { EmptyStr, PVName }
Phases == { "Pending", "Bound", "Lost" }
LabelValues == { 0, 1 }

(* ------------------------------- errors -------------------------------- *)
Err(kind, code, state) ==
  [kind |-> kind, code |-> code, state |-> state, inner |-> "", events |-> << >>]
Nil == Err("nil", 0, "")
StatusError(code) == Err("StatusError", code, "")
TransportError == Err("TransportError", 0, "")
MalformedIdentity == Err("MalformedIdentity", 0, "")
TimeoutError(lastState) == Err("TimeoutError", 0, lastState)
UnexpectedStateError(state) == Err("UnexpectedStateError", 0, state)
\* the errors any remote call may answer whatever the cluster holds
CallFailures == { TransportError, StatusError(500) }

(* --------------------------- identity codec ---------------------------- *)
\* buildId(meta): namespace, delimiter, name
buildId(ns, name) == ns \o <<Slash>> \o name

\* strings.Split(s, "/"): the segments between the delimiters
RECURSIVE Split(_)
Split(s) ==
  IF \A i \in 1..Len(s) : s[i] # Slash
    THEN << s >>
    ELSE LET i == CHOOSE j \in 1..Len(s) :
                    s[j] = Slash /\ \A k \in 1..(j - 1) : s[k] # Slash
         IN  << SubSeq(s, 1, i - 1) >> \o Split(SubSeq(s, i + 1, Len(s)))

\* idParts(id): (namespace, name, err); fails unless there are two segments
idParts(i) ==
  LET parts == Split(i)
  IN  IF Len(parts) # 2
        THEN [ns |-> EmptyStr, name |-> EmptyStr, err |-> MalformedIdentity]
        ELSE [ns |-> parts[1], name |-> parts[2], err |-> Nil]

(* ------------------------------ cluster -------------------------------- *)
NoObj == [exists |-> FALSE, phase |-> "", volume |-> EmptyStr, labels |-> 0]
NewObj(vol) == [exists |-> TRUE, phase |-> "Pending", volume |-> vol, labels |-> 0]
Objects ==
  { NoObj } \cup [exists : {TRUE}, phase : Phases, volume : VolumeNames, labels : LabelValues]

\* one entry of the log of remote calls of the running (or last) operation:
\* the source line of the call, what it addressed and what it answered
\* (items: the events listed, or the operations of the patch sent)
Call(line, verb, kind, ns, name, err, obj, items) ==
  [line |-> line, verb |-> verb, kind |-> kind, ns |-> ns, name |-> name,
   err |-> err, obj |-> obj, items |-> items]

\* a warning event of the cluster about an object; ts orders them by recency
Event(kind, name, ts) == [kind |-> kind, name |-> name, reason |-> "Failed", ts |-> ts]

\* the n warning events of an object, newest first
RECURSIVE NewestFirst(_, _, _)
NewestFirst(kind, name, n) ==
  IF n = 0 THEN << >> ELSE << Event(kind, name, n) >> \o NewestFirst(kind, name, n - 1)

\* getLastWarningsForObject: the newest warnings, at most limit of them
getLastWarningsForObject(kind, name, n, limit) ==
  LET warnings == NewestFirst(kind, name, n)
  IN  IF Len(warnings) < limit THEN warnings ELSE SubSeq(warnings, 1, limit)

\* stringifyEvents: one rendering per event, in the order given
stringifyEvents(events) ==
  [i \in 1..Len(events) |->
     [name |-> events[i].name, reason |-> events[i].reason, message |-> events[i].ts]]

(* ------------------------------- state --------------------------------- *)
VARIABLES
  cluster,      \* the claims the cluster holds, by (namespace, name)
  id,           \* d.Id(): the identity recorded locally
  waitFlag,     \* d.Get("wait_until_bound")
  mirror,       \* the metadata and spec Read stored in d
  pc,           \* where the running operation stands
  op,           \* the running (or last) operation
  meta,         \* Create: metadata of the configuration
  out,          \* Create: the object the create request answered
  polls,        \* Create: poll intervals elapsed in the wait
  lastState,    \* Create: the phase the wait observed last
  waitErr,      \* Create: err of stateConf.WaitForState()
  waitObs,      \* Create: the observation WaitForState returned
  lastWarnings, \* Create: the events collected
  calls,        \* the remote calls of the running (or last) operation
  result,       \* what the last operation returned
  owned         \* the object Create was acknowledged for, while the record is kept

vars == << cluster, id, waitFlag, mirror, pc, op, meta, out, polls,
           lastState, waitErr, waitObs, lastWarnings, calls, result, owned >>

createVars == << meta, out, polls, lastState, waitErr, waitObs, lastWarnings >>

NoMeta == [ns |-> EmptyStr, name |-> EmptyStr]
NoOut == [ns |-> EmptyStr, name |-> EmptyStr, volume |-> EmptyStr]
NoOwned == [set |-> FALSE, ns |-> EmptyStr, name |-> EmptyStr]
NoMirror == [set |-> FALSE, labels |-> 0, volume |-> EmptyStr]
Returned(o, err, exists) == [op |-> o, done |-> TRUE, err |-> err, exists |-> exists]
Running(o) == [op |-> o, done |-> FALSE, err |-> Nil, exists |-> FALSE]

Lookup(ns, name) == IF << ns, name >> \in Keys THEN cluster[<< ns, name >>] ELSE NoObj

\* what a get, patch or delete of (ns, name) may answer: err and the object
Responses(ns, name) ==
  { [err |-> e, obj |-> NoObj] : e \in CallFailures }
    \cup (IF Lookup(ns, name).exists
            THEN { [err |-> Nil, obj |-> Lookup(ns, name)] }
            ELSE { [err |-> StatusError(NotFoundCode), obj |-> NoObj] })

\* the locals of Create before it runs
NoCreate ==
  /\ meta' = NoMeta
  /\ out' = NoOut
  /\ polls' = 0
  /\ lastState' = ""
  /\ waitErr' = Nil
  /\ waitObs' = NoObj
  /\ lastWarnings' = << >>

\* what is remembered of the last operation is dropped at the next step taken
\* after it returned
Forgotten ==
  /\ NoCreate
  /\ op' = "none"
  /\ calls' = << >>
  /\ result' = Returned("none", Nil, FALSE)

History ==
  IF pc = "idle" THEN Forgotten ELSE UNCHANGED << createVars, op, calls, result >>

Init ==
  /\ cluster = [k \in Keys |-> NoObj]
  /\ id = EmptyStr
  /\ waitFlag = TRUE
  /\ mirror = NoMirror
  /\ pc = "idle"
  /\ op = "none"
  /\ meta = NoMeta
  /\ out = NoOut
  /\ polls = 0
  /\ lastState = ""
  /\ waitErr = Nil
  /\ waitObs = NoObj
  /\ lastWarnings = << >>
  /\ calls = << >>
  /\ result = Returned("none", Nil, FALSE)
  /\ owned = NoOwned

(* ------------------------------- Create -------------------------------- *)
\* Timeout of the StateChangeConf: d.Timeout(schema.TimeoutCreate)
Timeout == MaxDeadline

\* faulty variant: the target is a phase of volumes, which no claim reaches
TargetStates_volumePhase == { "Available" }

\* Target of the StateChangeConf
TargetStates == { "Bound" }

\* faulty variant: the pending phase is misspelt
PendingStates_typo == { "pending" }

\* faulty variant: Lost counts as still pending
PendingStates_withLost == { "Pending", "Lost" }

\* Pending of the StateChangeConf
PendingStates == { "Pending" }

\* faulty variant: the identity is not recorded
RecordIdentity_skip(o) == EmptyStr

\* faulty variant: the identity is the name alone
RecordIdentity_nameOnly(o) == o.name

\* d.SetId(buildId(out.ObjectMeta))
RecordIdentity(o) == buildId(o.ns, o.name)

\* faulty variant: the wait does not look at the flag
WaitRequested_always(flag) == TRUE

\* if d.Get("wait_until_bound").(bool)
WaitRequested(flag) == flag

\* faulty variant: the error of the get is logged and not returned
Refresh_swallow(resp) ==
  IF resp.err # Nil
    THEN [obj |-> resp.obj, state |-> "", err |-> Nil]
    ELSE [obj |-> resp.obj, state |-> resp.obj.phase, err |-> Nil]

\* Refresh: (out, phase, err) of one status get
Refresh(resp) ==
  IF resp.err # Nil
    THEN [obj |-> resp.obj, state |-> "", err |-> resp.err]
    ELSE [obj |-> resp.obj, state |-> resp.obj.phase, err |-> Nil]

\* how WaitForState classifies what Refresh returned
Classify(r) ==
  IF r.err # Nil THEN "error"
  ELSE IF r.state \in TargetStates THEN "target"
  ELSE IF r.state \in PendingStates THEN "pending"
  ELSE "unexpected"

\* faulty variant: the error of the wait is returned instead
DiagFailure_convergence(wErr, err) == err

\* return wErr
DiagFailure(wErr, err) == wErr

\* faulty variant: the volume is always asked too
NeedsRelated_always(warnings) == TRUE

\* if len(lastWarnings) == 0
NeedsRelated(warnings) == Len(warnings) = 0

\* faulty variant: only the events are rendered, the error of the wait is lost
CreateError_eventsOnly(err, events) ==
  [kind |-> "errorString", code |-> 0, state |-> "",
   inner |-> "", events |-> stringifyEvents(events)]

\* fmt.Errorf("%s%s", err, stringifyEvents(lastWarnings))
CreateError(err, events) ==
  [kind |-> "errorString", code |-> err.code, state |-> err.state,
   inner |-> err.kind, events |-> stringifyEvents(events)]

\* faulty variant: the error of the create request is not looked at
CreateFailed_ignored(e) == FALSE

\* if err != nil { return err }, after the create request
CreateFailed(e) == e # Nil

\* expand the configuration, issue the create request, record the identity
CreateRequest(ns, name, vol, specOk) ==
  /\ pc = "idle"
  /\ id = EmptyStr
  /\ ~mirror.set
  /\ op' = "create"
  /\ UNCHANGED << waitFlag, mirror >>
  /\ IF ~specOk
       THEN /\ result' = Returned("create", Err("ExpandError", 0, ""), FALSE)
            /\ calls' = << >>
            /\ NoCreate
            /\ UNCHANGED << cluster, id, pc, owned >>
       ELSE \E e \in CallFailures \cup { Nil } \cup
                     (IF cluster[<< ns, name >>].exists THEN { StatusError(409) } ELSE { }) :
              /\ e = Nil => ~cluster[<< ns, name >>].exists
              /\ calls' = << Call(53, "create", "PersistentVolumeClaim", ns, name, e,
                                  IF e = Nil THEN NewObj(vol) ELSE NoObj, << >>) >>
              /\ IF CreateFailed(e)
                   THEN /\ result' = Returned("create", e, FALSE)
                        /\ NoCreate
                        /\ UNCHANGED << cluster, id, pc, owned >>
                   ELSE /\ cluster' = IF e = Nil
                                         THEN [cluster EXCEPT ![<< ns, name >>] = NewObj(vol)]
                                         ELSE cluster
                        /\ meta' = [ns |-> ns, name |-> name]
                        /\ out' = [ns |-> ns, name |-> name, volume |-> vol]
                        /\ id' = RecordIdentity(out')
                        /\ owned' = [set |-> TRUE, ns |-> ns, name |-> name]
                        /\ polls' = 0
                        /\ lastState' = ""
                        /\ waitErr' = Nil
                        /\ waitObs' = NoObj
                        /\ lastWarnings' = << >>
                        /\ result' = Running("create")
                        /\ pc' = IF WaitRequested(waitFlag) THEN "wait" ELSE "read"

\* faulty variant: the status is read without the namespace
PollTarget_noNamespace == [ns |-> EmptyStr, name |-> out.name]

\* PersistentVolumeClaims(metadata.Namespace).Get(name, ...)
PollTarget == [ns |-> meta.ns, name |-> out.name]

\* one poll of WaitForState: Refresh, then classify the phase
WaitPoll ==
  /\ pc = "wait"
  /\ polls < Timeout
  /\ \E resp \in Responses(PollTarget.ns, PollTarget.name) :
       LET r == Refresh(resp)
           c == Classify(r)
       IN  /\ calls' = Append(calls, Call(68, "get", "PersistentVolumeClaim", PollTarget.ns,
                                          PollTarget.name, resp.err, resp.obj, << >>))
           /\ lastState' = r.state
           /\ polls' = IF c = "pending" THEN polls + 1 ELSE polls
           /\ waitErr' = IF c = "error" THEN r.err
                         ELSE IF c = "unexpected" THEN UnexpectedStateError(r.state)
                         ELSE Nil
           /\ waitObs' = IF c = "target" THEN r.obj ELSE waitObs
           /\ pc' = IF c = "pending" THEN "wait"
                    ELSE IF c = "target" THEN "read"
                    ELSE "diag1"
  /\ UNCHANGED << cluster, id, waitFlag, mirror, op, meta, out,
                  lastWarnings, result, owned >>

\* faulty variant: the wait has no deadline
WaitTimeout_never == FALSE /\ UNCHANGED vars

\* the deadline of WaitForState elapses
WaitTimeout ==
  /\ pc = "wait"
  /\ polls >= Timeout
  /\ waitErr' = TimeoutError(lastState)
  /\ pc' = "diag1"
  /\ UNCHANGED << cluster, id, waitFlag, mirror, op, meta, out, polls,
                  lastState, waitObs, lastWarnings, calls, result, owned >>

\* the number of warning events the cluster may hold about an object
EventCounts(name) == IF name = EmptyStr THEN { 0 } ELSE 0..MaxEvents

\* wait failed: the warning events of the claim
DiagPrimary ==
  /\ pc = "diag1"
  /\ \/ \E wErr \in CallFailures :
          /\ calls' = Append(calls, Call(84, "events", "PersistentVolumeClaim",
                                         out.ns, out.name, wErr, NoObj, << >>))
          /\ result' = Returned("create", DiagFailure(wErr, waitErr), FALSE)
          /\ pc' = "idle"
          /\ UNCHANGED lastWarnings
     \/ \E n \in EventCounts(out.name) :
          LET w == getLastWarningsForObject("PersistentVolumeClaim", out.name, n,
                                            WarningLimit)
          IN  /\ calls' = Append(calls, Call(84, "events", "PersistentVolumeClaim",
                                             out.ns, out.name, Nil, NoObj, w))
              /\ lastWarnings' = w
              /\ IF NeedsRelated(w)
                   THEN pc' = "diag2" /\ UNCHANGED result
                   ELSE /\ pc' = "idle"
                        /\ result' = Returned("create", CreateError(waitErr, w), FALSE)
  /\ UNCHANGED << cluster, id, waitFlag, mirror, op, meta, out, polls,
                  lastState, waitErr, waitObs, owned >>

\* no warning about the claim: the warning events of the volume
DiagRelated ==
  /\ pc = "diag2"
  /\ \/ \E wErr \in CallFailures :
          /\ calls' = Append(calls, Call(90, "events", "PersistentVolume",
                                         EmptyStr, out.volume, wErr, NoObj, << >>))
          /\ result' = Returned("create", DiagFailure(wErr, waitErr), FALSE)
          /\ UNCHANGED lastWarnings
     \/ \E n \in EventCounts(out.volume) :
          LET w == getLastWarningsForObject("PersistentVolume", out.volume, n,
                                            WarningLimit)
          IN  /\ calls' = Append(calls, Call(90, "events", "PersistentVolume",
                                             EmptyStr, out.volume, Nil, NoObj, w))
              /\ lastWarnings' = w
              /\ result' = Returned("create", CreateError(waitErr, w), FALSE)
  /\ pc' = "idle"
  /\ UNCHANGED << cluster, id, waitFlag, mirror, op, meta, out, polls,
                  lastState, waitErr, waitObs, owned >>

(* -------------------------------- Read --------------------------------- *)
\* the body of Read, run by operation o after the calls made so far
ReadBody(o, before) ==
  LET parts == idParts(id)
  IN  /\ pc' = "idle"
      /\ UNCHANGED << cluster, id, waitFlag, owned >>
      /\ IF parts.err # Nil
           THEN /\ result' = Returned(o, parts.err, FALSE)
                /\ calls' = before
                /\ UNCHANGED mirror
           ELSE \E resp \in Responses(parts.ns, parts.name) :
                  /\ calls' = Append(before, Call(115, "get", "PersistentVolumeClaim",
                                                  parts.ns, parts.name, resp.err, resp.obj, << >>))
                  /\ result' = Returned(o, resp.err, FALSE)
                  /\ mirror' = IF resp.err # Nil THEN mirror
                               ELSE [set |-> TRUE, labels |-> resp.obj.labels,
                                     volume |-> resp.obj.volume]

Read ==
  /\ pc = "idle"
  /\ id # EmptyStr
  /\ op' = "read"
  /\ NoCreate
  /\ ReadBody("read", << >>)

\* return resourceKubernetesPersistentVolumeClaimRead(d, meta), of Create and Update
ReadAfter ==
  /\ pc = "read"
  /\ UNCHANGED << op, createVars >>
  /\ ReadBody(op, calls)

(* ------------------------------- Update -------------------------------- *)
\* patchMetadata("metadata.0.", "/metadata/", d): the operations of the patch
patchMetadata(lab) == << [op |-> "replace", path |-> << "metadata", "labels" >>, value |-> lab] >>

\* the object after the operations of a patch
RECURSIVE ApplyPatch(_, _)
ApplyPatch(obj, ops) ==
  IF ops = << >> THEN obj
  ELSE LET o == Head(ops)
           next == IF o.path = << "metadata", "labels" >>
                     THEN [obj EXCEPT !.labels = o.value]
                     ELSE obj
       IN  ApplyPatch(next, Tail(ops))

\* faulty variant: the error of the patch is not looked at
PatchFailed_ignored(err) == FALSE

\* if err != nil { return err }, after the patch
PatchFailed(err) == err # Nil

Update(lab) ==
  /\ pc = "idle"
  /\ id # EmptyStr
  /\ op' = "update"
  /\ NoCreate
  /\ UNCHANGED << id, waitFlag, mirror, owned >>
  /\ LET parts == idParts(id)
         ops == patchMetadata(lab)
     IN  IF parts.err # Nil
           THEN /\ result' = Returned("update", parts.err, FALSE)
                /\ calls' = << >>
                /\ UNCHANGED << cluster, pc >>
           ELSE \E resp \in Responses(parts.ns, parts.name) :
                  /\ calls' = << [Call(149, "patch", "PersistentVolumeClaim", parts.ns,
                                       parts.name, resp.err, resp.obj, ops)
                                  EXCEPT !.obj = IF resp.err = Nil
                                                   THEN ApplyPatch(resp.obj, ops)
                                                   ELSE NoObj] >>
                  /\ IF PatchFailed(resp.err)
                       THEN /\ result' = Returned("update", resp.err, FALSE)
                            /\ UNCHANGED << cluster, pc >>
                       ELSE /\ cluster' = IF resp.err = Nil
                                            THEN [cluster EXCEPT
                                                    ![<< parts.ns, parts.name >>] =
                                                      ApplyPatch(resp.obj, ops)]
                                            ELSE cluster
                            /\ result' = Running("update")
                            /\ pc' = "read"

(* ------------------------------- Delete -------------------------------- *)
\* what Delete returns for the err of the remote delete call
DeleteResult(err) == err

\* faulty variant: the identity is cleared whatever the delete answered
IdAfterDelete_always(err, i) == EmptyStr

\* d.SetId("") is reached only when the delete returned no error
IdAfterDelete(err, i) == IF err # Nil THEN i ELSE EmptyStr

Delete ==
  /\ pc = "idle"
  /\ id # EmptyStr
  /\ op' = "delete"
  /\ NoCreate
  /\ UNCHANGED << waitFlag, mirror, pc >>
  /\ LET parts == idParts(id)
     IN  IF parts.err # Nil
           THEN /\ result' = Returned("delete", parts.err, FALSE)
                /\ calls' = << >>
                /\ UNCHANGED << cluster, id, owned >>
           ELSE \E resp \in Responses(parts.ns, parts.name) :
                  /\ calls' = << Call(167, "delete", "PersistentVolumeClaim", parts.ns,
                                      parts.name, resp.err, NoObj, << >>) >>
                  /\ result' = Returned("delete", DeleteResult(resp.err), FALSE)
                  /\ id' = IdAfterDelete(DeleteResult(resp.err), id)
                  /\ owned' = IF id' = EmptyStr THEN NoOwned ELSE owned
                  /\ cluster' = IF resp.err = Nil
                                  THEN [cluster EXCEPT ![<< parts.ns, parts.name >>] = NoObj]
                                  ELSE cluster

(* ------------------------------- Exists -------------------------------- *)
\* faulty variant: every status error counts as not found
ExistsResult_anyStatus(err) ==
  IF err # Nil
    THEN IF err.kind = "StatusError"
           THEN [exists |-> FALSE, err |-> Nil]
           ELSE [exists |-> TRUE, err |-> err]
    ELSE [exists |-> TRUE, err |-> err]

\* (bool, error) of Exists for the err of the remote get
ExistsResult(err) ==
  IF err # Nil
    THEN IF err.kind = "StatusError" /\ err.code = NotFoundCode
           THEN [exists |-> FALSE, err |-> Nil]
           ELSE [exists |-> TRUE, err |-> err]
    ELSE [exists |-> TRUE, err |-> err]

Exists ==
  /\ pc = "idle"
  /\ id # EmptyStr
  /\ op' = "exists"
  /\ NoCreate
  /\ UNCHANGED << cluster, id, waitFlag, mirror, pc, owned >>
  /\ LET parts == idParts(id)
     IN  IF parts.err # Nil
           THEN /\ result' = Returned("exists", parts.err, FALSE)
                /\ calls' = << >>
           ELSE \E resp \in Responses(parts.ns, parts.name) :
                  /\ calls' = << Call(187, "get", "PersistentVolumeClaim", parts.ns,
                                      parts.name, resp.err, resp.obj, << >>) >>
                  /\ result' = Returned("exists", ExistsResult(resp.err).err,
                                        ExistsResult(resp.err).exists)

(* ------------------------------- Import -------------------------------- *)
\* identity strings an import may be given
ImportIds ==
  { buildId(k[1], k[2]) : k \in Keys }
    \cup { <<"a">>, <<"n", Slash, "a", Slash, "a">>, <<"n", Slash, "b">> }

\* the tool seeds a record with the raw identity before it calls the importer
ImportSeed(raw, flag) ==
  /\ pc = "idle"
  /\ id = EmptyStr
  /\ id' = raw
  /\ waitFlag' = flag
  /\ mirror' = NoMirror
  /\ pc' = "import"
  /\ op' = "import"
  /\ calls' = << >>
  /\ result' = Running("import")
  /\ NoCreate
  /\ UNCHANGED << cluster, owned >>

\* faulty variant: the importer leaves the flag as it found it
ImportState_keepFlag ==
  /\ pc = "import"
  /\ pc' = "idle"
  /\ result' = Returned("import", Nil, FALSE)
  /\ UNCHANGED << cluster, id, waitFlag, mirror, op, createVars, calls, owned >>

\* Importer.State
ImportState ==
  /\ pc = "import"
  /\ waitFlag' = TRUE
  /\ pc' = "idle"
  /\ result' = Returned("import", Nil, FALSE)
  /\ UNCHANGED << cluster, id, mirror, op, createVars, calls, owned >>

(* ---------------------------- environment ------------------------------ *)
\* the configuration sets wait_until_bound of a record not yet created
Configure(flag) ==
  /\ pc = "idle"
  /\ id = EmptyStr
  /\ waitFlag # flag
  /\ waitFlag' = flag
  /\ Forgotten
  /\ UNCHANGED << cluster, id, mirror, pc, owned >>

\* the tool drops a record whose object is gone, was deleted, or failed to create
Forget ==
  /\ pc = "idle"
  /\ id # EmptyStr \/ mirror.set
  /\ id' = EmptyStr
  /\ mirror' = NoMirror
  /\ owned' = NoOwned
  /\ Forgotten
  /\ UNCHANGED << cluster, waitFlag, pc >>

\* the cluster moves a claim to another phase; binding names the volume
ClusterPhase(k, p) ==
  /\ cluster[k].exists
  /\ cluster[k].phase # p
  /\ cluster' = [cluster EXCEPT ![k] =
                   [@ EXCEPT !.phase = p,
                             !.volume = IF p = "Bound" THEN PVName ELSE @]]
  /\ History
  /\ UNCHANGED << id, waitFlag, mirror, pc, owned >>

\* somebody else deletes a claim
ClusterRemove(k) ==
  /\ cluster[k].exists
  /\ cluster' = [cluster EXCEPT ![k] = NoObj]
  /\ History
  /\ UNCHANGED << id, waitFlag, mirror, pc, owned >>

Next ==
  \/ \E ns \in Namespaces, name \in Names, vol \in VolumeNames, specOk \in BOOLEAN :
       CreateRequest(ns, name, vol, specOk)
  \/ WaitPoll
  \/ WaitTimeout
  \/ DiagPrimary
  \/ DiagRelated
  \/ Read
  \/ ReadAfter
  \/ \E lab \in LabelValues : Update(lab)
  \/ Delete
  \/ Exists
  \/ \E raw \in ImportIds, flag \in BOOLEAN : ImportSeed(raw, flag)
  \/ ImportState
  \/ \E flag \in BOOLEAN : Configure(flag)
  \/ Forget
  \/ \E k \in Keys, p \in Phases : ClusterPhase(k, p)
  \/ \E k \in Keys : ClusterRemove(k)

Spec == Init /\ [][Next]_vars

\* the steps of Create, of the cluster and of the tool between two Creates
NextCreate ==
  \/ \E ns \in Namespaces, name \in Names, vol \in VolumeNames, specOk \in BOOLEAN :
       CreateRequest(ns, name, vol, specOk)
  \/ WaitPoll
  \/ WaitTimeout
  \/ DiagPrimary
  \/ DiagRelated
  \/ ReadAfter
  \/ \E flag \in BOOLEAN : Configure(flag)
  \/ Forget
  \/ \E k \in Keys, p \in Phases : ClusterPhase(k, p)
  \/ \E k \in Keys : ClusterRemove(k)

\* a running Create goes on: each of its blocking calls returns and the wait
\* sleeps only for a poll interval
FairSpec ==
  /\ Init /\ [][NextCreate]_vars
  /\ WF_vars(WaitPoll)
  /\ WF_vars(WaitTimeout)
  /\ WF_vars(DiagPrimary)
  /\ WF_vars(DiagRelated)
  /\ WF_vars(ReadAfter)

(* ------------------------------ properties ----------------------------- *)
NotFound == StatusError(404)
IsPoll(c) == c.line = 68
IsEvents(c) == c.verb = "events"
\* the status polls and the event queries of the running (or last) operation
Polls == SelectSeq(calls, IsPoll)
EventQueries == SelectSeq(calls, IsEvents)
Observed(c, phase) == c.err = Nil /\ c.obj.phase = phase
LastCall == calls[Len(calls)]
CreateReturned == op = "create" /\ result.done
CreateAcknowledged == op = "create" /\ calls # << >> /\ calls[1].err = Nil

\* C1: when the remote delete answers NotFound, Delete returns no error and
\* clears the local identity, as it does when the remote delete succeeds.
C1_DeleteNotFoundSucceeds ==
  (op = "delete" /\ result.done /\ calls # << >> /\ calls[1].err = NotFound)
    => (result.err = Nil /\ id = EmptyStr)

\* C2: Exists on a well-formed identity returns (false, nil) when the get
\* answers NotFound, (true, nil) when it succeeds, and any other error of the get
\* unchanged, never (false, nil).
C2_ExistsSemantics ==
  (op = "exists" /\ result.done /\ calls # << >>) =>
    LET e == calls[1].err
    IN  /\ e = NotFound => (result.exists = FALSE /\ result.err = Nil)
        /\ e = Nil => (result.exists = TRUE /\ result.err = Nil)
        /\ e \notin { Nil, NotFound } => result.err = e

C2_Witness ==
  /\ op = "exists" /\ result.done /\ calls # << >>
  /\ calls[1].err = StatusError(500)
  /\ result.err = StatusError(500)

\* C3: when the remote get answers NotFound, Read does not fail: absence is not
\* returned as an error, unlike a transport error.
C3_ReadNotFoundIsNotFailure ==
  (op = "read" /\ result.done /\ calls # << >> /\ calls[1].err = NotFound)
    => result.err = Nil

\* C4: when the polls of the wait observe Pending k >= 0 times and then Bound,
\* the wait succeeds at that Bound poll with its observation, no poll follows a
\* Bound observation, and Create does not fail because of the wait.
C4_WaitSucceedsAtFirstBound ==
  op = "create" =>
    /\ \A i \in 1..(Len(Polls) - 1) : ~Observed(Polls[i], "Bound")
    /\ ( /\ Polls # << >>
         /\ \A i \in 1..(Len(Polls) - 1) : Observed(Polls[i], "Pending")
         /\ Observed(Polls[Len(Polls)], "Bound") )
       => /\ waitErr = Nil
          /\ waitObs = Polls[Len(Polls)].obj
          /\ EventQueries = << >>
          /\ pc = "read" \/ (result.done /\ LastCall.line = 115 /\ result.err = LastCall.err)

C4_Witness ==
  /\ CreateReturned /\ result.err = Nil /\ Len(Polls) = 3
  /\ Observed(Polls[1], "Pending") /\ Observed(Polls[2], "Pending")
  /\ Observed(Polls[3], "Bound")

\* C5: when every poll before the deadline observes Pending, the wait ends as a
\* timeout that carries the phase Pending, never as success, and Create
\* returns an error.
C5_AllPendingTimesOut ==
  ( /\ op = "create" /\ pc # "wait" /\ Polls # << >>
    /\ \A i \in 1..Len(Polls) : Observed(Polls[i], "Pending") )
    => /\ waitErr = TimeoutError("Pending")
       /\ pc # "read"
       /\ result.done => (result.err # Nil /\ LastCall.verb = "events")

C5_Witness ==
  /\ CreateReturned /\ Len(Polls) = MaxDeadline
  /\ \A i \in 1..Len(Polls) : Observed(Polls[i], "Pending")
  /\ waitErr = TimeoutError("Pending")
  /\ result.err.inner = "TimeoutError" /\ result.err.state = "Pending"

\* C6: a poll that observes a phase other than Pending and Bound is the last
\* poll: the wait fails there, before the deadline, with that phase as payload.
C6_UnexpectedPhaseFailsAtOnce ==
  op = "create" =>
    \A i \in 1..Len(Polls) :
      (Polls[i].err = Nil /\ Polls[i].obj.phase \notin { "Pending", "Bound" })
        => /\ i = Len(Polls)
           /\ pc \notin { "wait", "read" }
           /\ waitErr = UnexpectedStateError(Polls[i].obj.phase)
           /\ polls < MaxDeadline
           /\ result.done => (result.err # Nil /\ LastCall.verb = "events")

C6_Witness ==
  /\ op = "create" /\ pc = "diag1" /\ Len(Polls) = 2
  /\ Observed(Polls[1], "Pending") /\ Observed(Polls[2], "Lost")
  /\ waitErr = UnexpectedStateError("Lost")

\* C7: once the create request is acknowledged, the wait is entered if and only
\* if the flag is set; without the flag Create makes no poll and no event query,
\* goes to the final Read and returns what the Read returns, whatever the phase.
C7_WaitOnlyWhenFlagSet ==
  CreateAcknowledged =>
    /\ waitFlag => (pc = "wait" \/ Polls # << >>)
    /\ ~waitFlag =>
         /\ Polls = << >> /\ EventQueries = << >> /\ waitErr = Nil
         /\ pc = "read" \/ result.done
         /\ result.done =>
              (Len(calls) = 2 /\ calls[2].line = 115 /\ result.err = calls[2].err)

C7_Witness ==
  /\ CreateReturned /\ ~waitFlag /\ result.err = Nil
  /\ Len(calls) = 2 /\ Observed(calls[2], "Lost")

\* C8: the events of the claim are asked first; the events of the volume are
\* asked exactly when that first query succeeded with no event; the events
\* reported are those of the claim when there are some, else those of the volume.
C8_DiagnosticFallback ==
  (op = "create" /\ EventQueries # << >>) =>
    LET q == EventQueries
    IN  /\ q[1].line = 84 /\ q[1].kind = "PersistentVolumeClaim"
        /\ Len(q) <= 2
        /\ Len(q) = 2 => (q[2].line = 90 /\ q[2].kind = "PersistentVolume")
        /\ Len(q) = 2 => (q[1].err = Nil /\ q[1].items = << >>)
        /\ (q[1].err = Nil /\ q[1].items = << >>) => (Len(q) = 2 \/ pc = "diag2")
        /\ (result.done /\ q[Len(q)].err = Nil) =>
             /\ q[1].items # << >> =>
                  (lastWarnings = q[1].items /\ result.err.events = stringifyEvents(q[1].items))
             /\ q[1].items = << >> =>
                  (lastWarnings = q[2].items /\ result.err.events = stringifyEvents(q[2].items))

C8_Witness ==
  /\ CreateReturned /\ Len(EventQueries) = 2
  /\ EventQueries[1].err = Nil /\ EventQueries[1].items = << >>
  /\ EventQueries[2].err = Nil /\ Len(EventQueries[2].items) = 2
  /\ Len(result.err.events) = 2
  /\ result.err.events[1].name = PVName

\* C9: when the wait fails, Create issues no delete, and when it returns its
\* error the identity recorded at the acknowledgement still decodes to the
\* (namespace, name) of the claim created.
C9_OwnershipKeptOnWaitFailure ==
  (op = "create" /\ waitErr # Nil) =>
    /\ \A i \in 1..Len(calls) : calls[i].verb # "delete"
    /\ id # EmptyStr
    /\ idParts(id) = [ns |-> calls[1].ns, name |-> calls[1].name, err |-> Nil]
    /\ owned = [set |-> TRUE, ns |-> calls[1].ns, name |-> calls[1].name]
    /\ result.done => result.err # Nil

C9_Witness ==
  /\ CreateReturned /\ waitErr = TimeoutError("Pending") /\ result.err # Nil
  /\ id = << "n", Slash, "a" >>
  /\ cluster[<< <<"n">>, <<"a">> >>].exists

\* C10: when an event query fails after the wait failed, Create returns the
\* error of that query alone, and makes no call after it.
C10_DiagnosticErrorReplaces ==
  op = "create" =>
    \A i \in 1..Len(calls) :
      (calls[i].verb = "events" /\ calls[i].err # Nil)
        => /\ i = Len(calls)
           /\ result.done
           /\ result.err = calls[i].err

C10_Witness ==
  /\ CreateReturned /\ Len(EventQueries) = 2
  /\ EventQueries[2].err = TransportError
  /\ result.err = TransportError
  /\ waitErr = UnexpectedStateError("Lost")

IsRead(c) == c.line = 115
Reads == SelectSeq(calls, IsRead)

\* C11: an acknowledged Create that returned made the Read exactly when the wait
\* did not fail; when the wait failed and the event queries succeeded it returns
\* the error of the wait followed by the rendering of the events collected, at
\* most 3 and possibly none, and no Read was made.
C11_ReadOnlyWithoutWaitFailure ==
  (CreateAcknowledged /\ result.done) =>
    /\ Len(Reads) = (IF waitErr = Nil THEN 1 ELSE 0)
    /\ (waitErr # Nil /\ LastCall.err = Nil) =>
         /\ LastCall.verb = "events"
         /\ result.err.kind = "errorString"
         /\ result.err.inner = waitErr.kind
         /\ result.err.code = waitErr.code
         /\ result.err.state = waitErr.state
         /\ lastWarnings = LastCall.items
         /\ Len(result.err.events) = Len(lastWarnings)
         /\ Len(result.err.events) <= 3
         /\ \A i \in 1..Len(lastWarnings) :
              /\ result.err.events[i].name = lastWarnings[i].name
              /\ result.err.events[i].reason = lastWarnings[i].reason
              /\ result.err.events[i].message = lastWarnings[i].ts

C11_Witness ==
  /\ CreateAcknowledged /\ result.done /\ Reads = << >>
  /\ Len(EventQueries) = 2 /\ LastCall.err = Nil
  /\ waitErr = TimeoutError("Pending")
  /\ result.err.inner = "TimeoutError" /\ result.err.events = << >>

\* C12: Update sends one patch whose operations are all under metadata; its
\* step changes no phase, volume or existence of a claim of the cluster; it
\* makes no status poll and no event query whatever the flag; it goes on to
\* Read exactly when the patch succeeded, and returns the error of a failed
\* patch with no Read.
C12_UpdatePatchesMetadataOnly ==
  [][ /\ (pc = "idle" /\ op' = "update") =>
           \A k \in Keys :
             /\ cluster'[k].exists = cluster[k].exists
             /\ cluster'[k].phase = cluster[k].phase
             /\ cluster'[k].volume = cluster[k].volume
      /\ op' = "update" =>
           /\ pc' \in { "idle", "read" }
           /\ \A i \in 1..Len(calls') : calls'[i].line \in { 149, 115 }
           /\ calls' # << >> =>
                /\ calls'[1].verb = "patch"
                /\ \A j \in 1..Len(calls'[1].items) :
                     calls'[1].items[j].path[1] = "metadata"
                /\ \A i \in 2..Len(calls') : calls'[i].line = 115
                /\ Len(calls') <= 2
                /\ calls'[1].err # Nil =>
                     (Len(calls') = 1 /\ pc' = "idle" /\ result'.err = calls'[1].err)
                /\ calls'[1].err = Nil =>
                     (pc' = "read" \/ (Len(calls') = 2 /\ result'.err = calls'[2].err)) ]_vars

C12_Witness ==
  /\ op = "update" /\ result.done /\ result.err = Nil /\ waitFlag
  /\ Len(calls) = 2 /\ calls[1].obj.labels = 1 /\ calls[2].obj.labels = 1
  /\ calls[2].obj.phase = "Pending"

\* C13: no event query about the volume is made with an empty volume name.
C13_NoVolumeQueryWithoutName ==
  op = "create" =>
    \A i \in 1..Len(calls) : calls[i].line = 90 => calls[i].name # EmptyStr

\* C14: the importer returns with the flag set, whatever it was, and with the
\* identity it was given.
C14_ImportSetsWaitFlag ==
  [][ (pc = "import" /\ pc' = "idle") =>
        (waitFlag' = TRUE /\ id' = id /\ result'.err = Nil) ]_vars

C14_Witness ==
  /\ op = "import" /\ result.done /\ waitFlag
  /\ id = << "n", Slash, "a", Slash, "a" >>

IsByIdentity(c) == c.line \in { 115, 149, 167, 187 }
ByIdentity == SelectSeq(calls, IsByIdentity)

\* C15: while the record of a created claim is kept, its identity decodes to the
\* (namespace, name) Create was acknowledged for, the empty namespace included,
\* and every call Read, Update, Delete and Exists make addresses that object.
C15_IdentityRoundTrip ==
  owned.set =>
    /\ idParts(id) = [ns |-> owned.ns, name |-> owned.name, err |-> Nil]
    /\ \A i \in 1..Len(ByIdentity) :
         ByIdentity[i].ns = owned.ns /\ ByIdentity[i].name = owned.name

C15_Witness ==
  /\ owned.set /\ owned.ns = EmptyStr /\ id = << Slash, "a" >>
  /\ op = "exists" /\ result.done /\ result.exists /\ result.err = Nil
  /\ calls[1].ns = EmptyStr /\ calls[1].name = << "a" >>

\* C16: a status poll that returns an error, NotFound included, is the last poll:
\* the wait fails there with that error, before the deadline, and Create goes
\* on to the event queries and returns an error.
C16_PollErrorFailsWait ==
  op = "create" =>
    \A i \in 1..Len(Polls) :
      Polls[i].err # Nil
        => /\ i = Len(Polls)
           /\ pc \in { "diag1", "diag2", "idle" }
           /\ waitErr = Polls[i].err
           /\ polls < MaxDeadline
           /\ Reads = << >>
           /\ result.done =>
                (result.err # Nil /\ EventQueries # << >> /\ LastCall.verb = "events")

C16_Witness ==
  /\ CreateReturned /\ Len(Polls) = 2
  /\ Observed(Polls[1], "Pending") /\ Polls[2].err = NotFound
  /\ result.err.inner = "StatusError" /\ result.err.code = 404

\* C17: while Create waits, each call it makes is a status get of the claim it
\* created, answered from what the cluster holds at that moment, and the call
\* changes nothing in the cluster.
C17_WaitOnlyObserves ==
  [][ (pc = "wait" /\ calls' # calls) =>
        LET c == calls'[Len(calls')]
            k == << c.ns, c.name >>
        IN  /\ calls' = Append(calls, c)
            /\ c.verb = "get" /\ c.kind = "PersistentVolumeClaim"
            /\ c.ns = owned.ns /\ c.name = owned.name
            /\ cluster' = cluster
            /\ c.err = Nil => (cluster[k].exists /\ c.obj = cluster[k])
            /\ c.err = NotFound => ~cluster[k].exists
            /\ \A i \in 2..Len(calls) : calls[i].line = 68 ]_vars

C17_Witness ==
  /\ op = "create" /\ pc = "wait" /\ Len(Polls) = 2
  /\ Observed(Polls[1], "Pending") /\ Polls[1].obj.volume = EmptyStr
  /\ Observed(Polls[2], "Pending") /\ Polls[2].obj.volume = PVName
  /\ calls[1].ns = << "n" >>

\* C18: every Create that was started returns, whatever phases the cluster
\* reports meanwhile.
C18_CreateReturns ==
  (op = "create" /\ ~result.done) ~> (op = "create" /\ result.done)

C18_Witness ==
  /\ CreateReturned /\ Len(Polls) = MaxDeadline
  /\ waitErr = TimeoutError("Pending")
  /\ cluster[<< calls[1].ns, calls[1].name >>].phase = "Bound"

\* C19: when the create request fails, Create returns that error with the
\* identity unset and makes no other call; once the request is acknowledged the
\* identity is recorded, before any poll.
C19_IdentityOnlyAfterAcknowledgement ==
  op = "create" =>
    /\ calls = << >> => (id = EmptyStr /\ ~owned.set)
    /\ (calls # << >> /\ calls[1].err # Nil) =>
         /\ result.done /\ result.err = calls[1].err
         /\ Len(calls) = 1
         /\ pc = "idle"
         /\ id = EmptyStr /\ ~owned.set
    /\ (calls # << >> /\ calls[1].err = Nil) => id # EmptyStr

C19_Witness ==
  /\ CreateReturned /\ Len(calls) = 1
  /\ calls[1].err = StatusError(409) /\ result.err = StatusError(409)
  /\ id = EmptyStr /\ cluster[<< calls[1].ns, calls[1].name >>].exists

\* C20: a Delete that cannot decode the identity makes no remote call, and a
\* Delete that returns an error (the decoding error, or the error of the remote
\* delete) leaves the identity as it was; the identity is cleared only when
\* Delete returns no error.
C20_DeleteKeepsIdentityOnError ==
  [][ (pc = "idle" /\ op' = "delete") =>
        /\ result'.done
        /\ idParts(id).err # Nil =>
             (calls' = << >> /\ result'.err = idParts(id).err /\ id' = id)
        /\ idParts(id).err = Nil =>
             (Len(calls') = 1 /\ calls'[1].verb = "delete")
        /\ (calls' # << >> /\ calls'[1].err \in CallFailures) =>
             (result'.err = calls'[1].err /\ cluster' = cluster)
        /\ result'.err # Nil => (id' = id /\ owned' = owned)
        /\ id' # id => (result'.err = Nil /\ id' = EmptyStr) ]_vars

C20_Witness ==
  /\ op = "delete" /\ result.done /\ result.err = TransportError
  /\ id = << "n", Slash, "a" >> /\ owned.set
  /\ cluster[<< <<"n">>, <<"a">> >>].exists

====
